---- MODULE Spec2Model ----
(***************************************************************************)
(* entt::default_pool<Entity, Type> (src/src/entt/entity/pool.hpp): a      *)
(* storage<Entity, Type> extended with three signals (construction,        *)
(* destruction, update).  The pool operations are modelled as frames on a  *)
(* call stack, one step per statement that changes state, so that the      *)
(* state a listener can observe during a publish is a state of the model.  *)
(* storage.hpp and sigh.hpp are not part of the sources at hand: the       *)
(* storage and signal primitives follow their description in the spec.     *)
(***************************************************************************)
EXTENDS Integers, Sequences, FiniteSets, TLC

\* ---------------------------------------------------------------- bounds
MaxEntity == 2
MaxVal == 1
MaxFuncs == 2
MaxSubscribed == 2
MaxListeners == 3
MaxDepth == 2
MaxBatch == 3

Entities == 1..MaxEntity
Values == 0..MaxVal
\* What an operation returns: nothing (a zero-size component), a reference to
\* a stored component (its value), or what get() yields for an entity that is
\* not in the pool (a dangling reference; a debug build aborts instead).
None == [kind |-> "none", v |-> 0]
Ref(v) == [kind |-> "ref", v |-> v]
Dangling == [kind |-> "dangling", v |-> 0]
Abort == [kind |-> "abort", v |-> 0]

\* probing listeners, which only record what they are called with
Observers == {"A", "B", "C"}
\* function objects handed to patch: void(Type &)
Funcs == {"inc", "dbl"}

VARIABLES
    packed,         \* storage: the dense array of entities
    instances,      \* storage: the dense array of components (none for an empty type)
    construction,   \* sigh construction: its listeners, in order
    destruction,    \* sigh destruction
    update,         \* sigh update
    eto,            \* is_eto_eligible_v<object_type>: the component type is empty
    stack,          \* the pool operations in progress, the innermost last
    trace,          \* the events of the outermost operation in progress
    members         \* the entities emplaced or inserted and not erased since

vars == <<packed, instances, construction, destruction, update, eto, stack, trace, members>>

\* ------------------------------------------------------------- utilities
Range(s) == {s[i] : i \in 1..Len(s)}

NoDup(s) == \A i, j \in 1..Len(s) : i # j => s[i] # s[j]

SeqsUpTo(S, n) == UNION {[1..k -> S] : k \in 0..n}

\* the number of slots of sequence s holding x
Count(s, x) == Cardinality({i \in 1..Len(s) : s[i] = x})

\* ------------------------------------------------ storage (sparse set)
\* storage::contains
Contains(e) == e \in Range(packed)

\* sparse_set::index: the slot of a present entity
Index(e) == CHOOSE i \in 1..Len(packed) : packed[i] = e

\* storage::get: the component of a present entity
Get(e) == instances[Index(e)]

\* storage::emplace: a new slot at the end of the dense arrays
StorageEmplace(e, v) ==
    /\ packed' = Append(packed, e)
    /\ instances' = IF eto THEN instances ELSE Append(instances, v)

\* storage::insert: one slot per entity of the range, all built from args
StorageInsert(rng, v) ==
    /\ packed' = packed \o rng
    /\ instances' = IF eto THEN instances
                    ELSE instances \o [i \in 1..Len(rng) |-> v]

\* swap-and-pop of slot i of a dense array
SwapPop(s, i) == [j \in 1..(Len(s) - 1) |-> IF j = i THEN s[Len(s)] ELSE s[j]]

\* storage::erase: the last slot moves into the erased one
StorageErase(e) ==
    /\ packed' = SwapPop(packed, Index(e))
    /\ instances' = IF eto THEN instances ELSE SwapPop(instances, Index(e))

\* storage::clear
StorageClear ==
    /\ packed' = <<>>
    /\ instances' = <<>>

\* ------------------------------------------------------ signals (sigh)
Sig(name) ==
    CASE name = "construction" -> construction
      [] name = "destruction" -> destruction
      [] name = "update" -> update

\* The events of the outermost call in progress, in the order they happen.
\* sigh::publish entered for (owner, e)
Pub(name, e) == [kind |-> "publish", sig |-> name, l |-> "-", e |-> e]

\* listener l of the signal invoked with (owner, e)
Call(name, l, e) == [kind |-> "call", sig |-> name, l |-> l, e |-> e]

\* function object f of a patch invoked on the component of e
Applied(f, e) == [kind |-> "apply", sig |-> "-", l |-> f, e |-> e]

\* this->get(e) evaluated by a pool operation
Got(e) == [kind |-> "get", sig |-> "-", l |-> "-", e |-> e]

\* storage::erase(e) and storage::clear() called by a pool operation
Erased(e) == [kind |-> "erase", sig |-> "-", l |-> "-", e |-> e]

Cleared == [kind |-> "clear", sig |-> "-", l |-> "-", e |-> 0]

Subscribed == Len(construction) + Len(destruction) + Len(update)

\* sink::disconnect on a listener list
Remove(s, l) == SelectSeq(s, LAMBDA x : x # l)

\* ---------------------------------------------------------- call frames
\* op: the operation; pc: where it stands; sig: the signal it publishes;
\* e: the entity it publishes for; v: the value of args (emplace, insert) or
\* the component on entry (erase, patch); rng, k: the range [first, last) and
\* the position of first in it; n: the size of the pool on entry; pre: the
\* entities of the pool on entry; li: the next listener of the publish in
\* progress; fs: the functions of a patch; ret: what the operation returns.
Frame(op, pc, sig, e, v, rng, k, fs) ==
    [op |-> op, pc |-> pc, sig |-> sig, e |-> e, v |-> v, rng |-> rng,
     k |-> k, n |-> Len(packed), pre |-> Range(packed), li |-> 1, fs |-> fs,
     ret |-> None]

Idle == stack = <<>>

Top == stack[Len(stack)]

Push(stk, f) == Append(stk, f)

SetTop(stk, f) == [stk EXCEPT ![Len(stk)] = f]

\* the patch functions applied to v in argument order
RECURSIVE ApplyFuncs(_, _)
Apply(f, v) ==
    CASE f = "inc" -> (v + 1) % (MaxVal + 1)
      [] f = "dbl" -> (2 * v) % (MaxVal + 1)

ApplyFuncs(fs, v) ==
    IF fs = <<>> THEN v ELSE ApplyFuncs(Tail(fs), Apply(Head(fs), v))

\* arguments a component is constructed from
ArgValues == IF eto THEN {0} ELSE Values

Init ==
    /\ packed = <<>>
    /\ instances = <<>>
    /\ construction = <<>>
    /\ destruction = <<>>
    /\ update = <<>>
    /\ eto \in BOOLEAN
    /\ stack = <<>>
    /\ trace = <<>>
    /\ members = {}

\* --------------------------------------------------- listener lists
SetSig(name, s) ==
    /\ construction' = IF name = "construction" THEN s ELSE construction
    /\ destruction' = IF name = "destruction" THEN s ELSE destruction
    /\ update' = IF name = "update" THEN s ELSE update

\* on_construct() / on_update() / on_destroy() followed by sink::connect
Connect(name, l) ==
    /\ Idle
    /\ l \notin Range(Sig(name))
    /\ SetSig(name, Append(Sig(name), l))
    /\ UNCHANGED <<packed, instances, eto, stack, trace, members>>

\* on_construct() / on_update() / on_destroy() followed by sink::disconnect
Disconnect(name, l) ==
    /\ Idle
    /\ l \in Range(Sig(name))
    /\ SetSig(name, Remove(Sig(name), l))
    /\ UNCHANGED <<packed, instances, eto, stack, trace, members>>

\* ------------------------------------------------------------ emplace
\* faulty variant: the publish is entered before the component is stored
EmplaceCallPublishFirst(e, v, stk, tr) ==
    /\ ~Contains(e)
    /\ UNCHANGED <<packed, instances>>
    /\ stack' = Push(stk, Frame("emplace", "publish", "construction", e, v, <<>>, 0, <<>>))
    /\ trace' = Append(tr, Pub("construction", e))
    /\ members' = members \cup {e}

\* emplace up to the start of construction.publish(owner, entity)
EmplaceCall(e, v, stk, tr) ==
    /\ ~Contains(e)
    /\ StorageEmplace(e, v)
    /\ stack' = Push(stk, Frame("emplace", "publish", "construction", e, v, <<>>, 0, <<>>))
    /\ trace' = Append(tr, Pub("construction", e))
    /\ members' = members \cup {e}

Emplace(e, v) ==
    /\ Idle
    /\ EmplaceCall(e, v, stack, trace)
    /\ UNCHANGED <<construction, destruction, update, eto>>

\* what the evaluation of this->get(e) yields: the component, or, for an
\* entity that is not in the pool, a debug-build abort or a dangling reference
GetOutcomes(e) == IF Contains(e) THEN {Ref(Get(e))} ELSE {Dangling, Abort}

\* the frame after `return this->get(e)` yielded r
Returned(f, r) ==
    IF r = Abort THEN [f EXCEPT !.pc = "aborted"]
    ELSE [f EXCEPT !.pc = "done", !.ret = r]

\* emplace after the publish: return this->get(entity) unless the type is empty
EmplaceReturn ==
    /\ ~Idle
    /\ Top.op = "emplace" /\ Top.pc = "publish" /\ Top.li > Len(construction)
    /\ IF eto
         THEN /\ stack' = SetTop(stack, [Top EXCEPT !.pc = "done"])
              /\ trace' = trace
         ELSE /\ \E r \in GetOutcomes(Top.e) : stack' = SetTop(stack, Returned(Top, r))
              /\ trace' = Append(trace, Got(Top.e))
    /\ UNCHANGED <<packed, instances, construction, destruction, update, eto, members>>

\* ------------------------------------------------------------- insert
\* faulty variant: the listener index is carried over from one entity to the next
AtEntityKeepsListener(f, k) == [f EXCEPT !.pc = "publish", !.k = k, !.e = f.rng[k], !.li = k]

\* the frame of a batch publishing for the k-th entity of its range
AtEntity(f, k) == [f EXCEPT !.pc = "publish", !.k = k, !.e = f.rng[k], !.li = 1]

\* faulty variant: the publish loop runs whether or not a listener is registered
InsertAlwaysPublishes(rng, v) ==
    /\ Idle
    /\ NoDup(rng)
    /\ \A i \in 1..Len(rng) : ~Contains(rng[i])
    /\ StorageInsert(rng, v)
    /\ LET f == Frame("insert", "done", "construction", 0, v, rng, 0, <<>>)
       IN  IF rng # <<>>
             THEN /\ stack' = Push(stack, AtEntity(f, 1))
                  /\ trace' = Append(trace, Pub("construction", rng[1]))
             ELSE /\ stack' = Push(stack, f)
                  /\ trace' = trace
    /\ members' = members \cup Range(rng)
    /\ UNCHANGED <<construction, destruction, update, eto>>

\* faulty variant: the range is handed to the storage twice
InsertStoresTwice(rng, v) ==
    /\ Idle
    /\ NoDup(rng)
    /\ \A i \in 1..Len(rng) : ~Contains(rng[i])
    /\ StorageInsert(rng \o rng, v)
    /\ LET f == Frame("insert", "done", "construction", 0, v, rng, 0, <<>>)
       IN  IF construction # <<>> /\ rng # <<>>
             THEN /\ stack' = Push(stack, AtEntity(f, 1))
                  /\ trace' = Append(trace, Pub("construction", rng[1]))
             ELSE /\ stack' = Push(stack, f)
                  /\ trace' = trace
    /\ members' = members \cup Range(rng)
    /\ UNCHANGED <<construction, destruction, update, eto>>

Insert(rng, v) ==
    /\ Idle
    /\ NoDup(rng)
    /\ \A i \in 1..Len(rng) : ~Contains(rng[i])
    /\ StorageInsert(rng, v)
    /\ LET f == Frame("insert", "done", "construction", 0, v, rng, 0, <<>>)
       IN  IF construction # <<>> /\ rng # <<>>
             THEN /\ stack' = Push(stack, AtEntity(f, 1))
                  /\ trace' = Append(trace, Pub("construction", rng[1]))
             ELSE /\ stack' = Push(stack, f)
                  /\ trace' = trace
    /\ members' = members \cup Range(rng)
    /\ UNCHANGED <<construction, destruction, update, eto>>

\* the publish loop of insert: on to the next entity of the range
InsertNext ==
    /\ ~Idle
    /\ Top.op = "insert" /\ Top.pc = "publish" /\ Top.li > Len(construction)
    /\ IF Top.k < Len(Top.rng)
         THEN /\ stack' = SetTop(stack, AtEntity(Top, Top.k + 1))
              /\ trace' = Append(trace, Pub("construction", Top.rng[Top.k + 1]))
         ELSE /\ stack' = SetTop(stack, [Top EXCEPT !.pc = "done"])
              /\ trace' = trace
    /\ UNCHANGED <<packed, instances, construction, destruction, update, eto, members>>

\* -------------------------------------------------------------- erase
\* faulty variant: the entity is removed before the destruction signal is published
EraseCallRemoveFirst(e, stk, tr) ==
    /\ Contains(e)
    /\ StorageErase(e)
    /\ stack' = Push(stk, Frame("erase", "publish", "destruction", e,
                                IF eto THEN 0 ELSE Get(e), <<>>, 0, <<>>))
    /\ trace' = Append(tr, Pub("destruction", e))
    /\ members' = members \ {e}

\* erase(owner, entity) up to the start of destruction.publish(owner, entity)
EraseCall(e, stk, tr) ==
    /\ Contains(e)
    /\ stack' = Push(stk, Frame("erase", "publish", "destruction", e,
                                IF eto THEN 0 ELSE Get(e), <<>>, 0, <<>>))
    /\ trace' = Append(tr, Pub("destruction", e))
    /\ members' = members \ {e}
    /\ UNCHANGED <<packed, instances>>

Erase(e) ==
    /\ Idle
    /\ EraseCall(e, stack, trace)
    /\ UNCHANGED <<construction, destruction, update, eto>>

\* faulty variant: the entity in the last slot is erased instead of the
\* entity of the call
EraseRemoveLast ==
    /\ ~Idle
    /\ Top.op = "erase" /\ Top.pc = "publish" /\ Top.li > Len(destruction)
    /\ Contains(Top.e)
    /\ StorageErase(packed[Len(packed)])
    /\ stack' = SetTop(stack, [Top EXCEPT !.pc = "done"])
    /\ trace' = Append(trace, Erased(Top.e))
    /\ UNCHANGED <<construction, destruction, update, eto, members>>

\* erase(owner, entity) after the publish: storage::erase(entity)
EraseRemove ==
    /\ ~Idle
    /\ Top.op = "erase" /\ Top.pc = "publish" /\ Top.li > Len(destruction)
    /\ Contains(Top.e)
    /\ StorageErase(Top.e)
    /\ stack' = SetTop(stack, [Top EXCEPT !.pc = "done"])
    /\ trace' = Append(trace, Erased(Top.e))
    /\ UNCHANGED <<construction, destruction, update, eto, members>>

\* faulty variant: the full-clear branch clears without publishing
EraseRangeClearsSilently(rng) ==
    /\ Idle
    /\ NoDup(rng)
    /\ \A i \in 1..Len(rng) : Contains(rng[i])
    /\ LET f == Frame("erase_range", "done", "destruction", 0, 0, rng, 0, <<>>)
       IN  IF Len(rng) = Len(packed)
             THEN /\ StorageClear
                  /\ stack' = Push(stack, f)
                  /\ trace' = Append(trace, Cleared)
             ELSE /\ stack' = Push(stack, [f EXCEPT !.pc = "loop", !.k = 1])
                  /\ trace' = trace
                  /\ UNCHANGED <<packed, instances>>
    /\ members' = members \ Range(rng)
    /\ UNCHANGED <<construction, destruction, update, eto>>

\* faulty variant: the size test is <= instead of ==
EraseRangeAlwaysClears(rng) ==
    /\ Idle
    /\ NoDup(rng)
    /\ \A i \in 1..Len(rng) : Contains(rng[i])
    /\ LET f == Frame("erase_range", "done", "destruction", 0, 0, rng, 0, <<>>)
       IN  IF Len(rng) <= Len(packed)
             THEN IF destruction # <<>> /\ rng # <<>>
                    THEN /\ stack' = Push(stack, AtEntity(f, 1))
                         /\ trace' = Append(trace, Pub("destruction", rng[1]))
                         /\ UNCHANGED <<packed, instances>>
                    ELSE /\ StorageClear
                         /\ stack' = Push(stack, f)
                         /\ trace' = Append(trace, Cleared)
             ELSE /\ stack' = Push(stack, [f EXCEPT !.pc = "loop", !.k = 1])
                  /\ trace' = trace
                  /\ UNCHANGED <<packed, instances>>
    /\ members' = members \ Range(rng)
    /\ UNCHANGED <<construction, destruction, update, eto>>

\* faulty variant: the size test never holds, every range is erased entity
\* by entity
EraseRangeNeverClears(rng) ==
    /\ Idle
    /\ NoDup(rng)
    /\ \A i \in 1..Len(rng) : Contains(rng[i])
    /\ stack' = Push(stack, [Frame("erase_range", "loop", "destruction", 0, 0, rng, 0, <<>>)
                               EXCEPT !.k = 1])
    /\ members' = members \ Range(rng)
    /\ UNCHANGED <<packed, instances, trace>>
    /\ UNCHANGED <<construction, destruction, update, eto>>

\* erase(owner, first, last): the size test and the first statement of the
\* branch taken
EraseRange(rng) ==
    /\ Idle
    /\ NoDup(rng)
    /\ \A i \in 1..Len(rng) : Contains(rng[i])
    /\ LET f == Frame("erase_range", "done", "destruction", 0, 0, rng, 0, <<>>)
       IN  IF Len(rng) = Len(packed)
             THEN IF destruction # <<>> /\ rng # <<>>
                    THEN /\ stack' = Push(stack, AtEntity(f, 1))
                         /\ trace' = Append(trace, Pub("destruction", rng[1]))
                         /\ UNCHANGED <<packed, instances>>
                    ELSE /\ StorageClear
                         /\ stack' = Push(stack, f)
                         /\ trace' = Append(trace, Cleared)
             ELSE /\ stack' = Push(stack, [f EXCEPT !.pc = "loop", !.k = 1])
                  /\ trace' = trace
                  /\ UNCHANGED <<packed, instances>>
    /\ members' = members \ Range(rng)
    /\ UNCHANGED <<construction, destruction, update, eto>>

\* the caller erases the entities of the pool one by one: a loop of
\* erase(owner, entity) over a listing of the whole pool
EraseEach(rng) ==
    /\ Idle
    /\ NoDup(rng)
    /\ Range(rng) = Range(packed)
    /\ stack' = Push(stack, [Frame("erase_each", "loop", "destruction", 0, 0, rng, 1, <<>>)
                               EXCEPT !.k = 1])
    /\ UNCHANGED <<packed, instances, trace, members>>
    /\ UNCHANGED <<construction, destruction, update, eto>>

\* faulty variant: the full-clear branch clears the storage after the first
\* publish and goes on publishing
EraseRangeNextClearsEarly ==
    /\ ~Idle
    /\ Top.op = "erase_range" /\ Top.pc = "publish" /\ Top.li > Len(destruction)
    /\ StorageClear
    /\ IF Top.k < Len(Top.rng)
         THEN /\ stack' = SetTop(stack, AtEntity(Top, Top.k + 1))
              /\ trace' = trace \o <<Cleared, Pub("destruction", Top.rng[Top.k + 1])>>
         ELSE /\ stack' = SetTop(stack, [Top EXCEPT !.pc = "done"])
              /\ trace' = Append(trace, Cleared)
    /\ UNCHANGED <<construction, destruction, update, eto, members>>

\* faulty variant: the publish loop of the full-clear branch stops one
\* entity short
EraseRangeNextStopsShort ==
    /\ ~Idle
    /\ Top.op = "erase_range" /\ Top.pc = "publish" /\ Top.li > Len(destruction)
    /\ IF Top.k + 1 < Len(Top.rng)
         THEN /\ stack' = SetTop(stack, AtEntity(Top, Top.k + 1))
              /\ trace' = Append(trace, Pub("destruction", Top.rng[Top.k + 1]))
              /\ UNCHANGED <<packed, instances>>
         ELSE /\ StorageClear
              /\ stack' = SetTop(stack, [Top EXCEPT !.pc = "done"])
              /\ trace' = Append(trace, Cleared)
    /\ UNCHANGED <<construction, destruction, update, eto, members>>

\* the publish loop of the full-clear branch: on to the next entity of the
\* range, and this->clear() after the last
EraseRangeNext ==
    /\ ~Idle
    /\ Top.op = "erase_range" /\ Top.pc = "publish" /\ Top.li > Len(destruction)
    /\ IF Top.k < Len(Top.rng)
         THEN /\ stack' = SetTop(stack, AtEntity(Top, Top.k + 1))
              /\ trace' = Append(trace, Pub("destruction", Top.rng[Top.k + 1]))
              /\ UNCHANGED <<packed, instances>>
         ELSE /\ StorageClear
              /\ stack' = SetTop(stack, [Top EXCEPT !.pc = "done"])
              /\ trace' = Append(trace, Cleared)
    /\ UNCHANGED <<construction, destruction, update, eto, members>>

\* faulty variant: the loop walks the range from its last entity to its first
EraseRangeLoopBackwards ==
    /\ ~Idle
    /\ Top.pc = "loop"
    /\ IF Top.k <= Len(Top.rng)
         THEN EraseCall(Top.rng[Len(Top.rng) + 1 - Top.k],
                        SetTop(stack, [Top EXCEPT !.k = @ + 1]), trace)
         ELSE /\ stack' = SetTop(stack, [Top EXCEPT !.pc = "done"])
              /\ UNCHANGED <<packed, instances, trace, members>>
    /\ UNCHANGED <<construction, destruction, update, eto>>

\* the loop of the other branch: this->erase(owner, *first) per entity
EraseRangeLoop ==
    /\ ~Idle
    /\ Top.pc = "loop"
    /\ IF Top.k <= Len(Top.rng)
         THEN EraseCall(Top.rng[Top.k], SetTop(stack, [Top EXCEPT !.k = @ + 1]), trace)
         ELSE /\ stack' = SetTop(stack, [Top EXCEPT !.pc = "done"])
              /\ UNCHANGED <<packed, instances, trace, members>>
    /\ UNCHANGED <<construction, destruction, update, eto>>

\* -------------------------------------------------------------- patch
\* the events of funcs applied to the component of e, in argument order
AppliedAll(fs, e) == [i \in 1..Len(fs) |-> Applied(fs[i], e)]

Reverse(s) == [i \in 1..Len(s) |-> s[Len(s) + 1 - i]]

\* faulty variant: the functions are applied from the last to the first
PatchReversed(e, fs) ==
    /\ Idle
    /\ Contains(e)
    /\ IF eto
         THEN /\ UNCHANGED instances
              /\ stack' = Push(stack, Frame("patch", "publish", "update", e, 0, <<>>, 0, fs))
              /\ trace' = Append(trace, Pub("update", e))
         ELSE /\ instances' = [instances EXCEPT ![Index(e)] = ApplyFuncs(Reverse(fs), @)]
              /\ stack' = Push(stack, Frame("patch", "publish", "update", e, Get(e), <<>>, 0, fs))
              /\ trace' = (trace \o AppliedAll(Reverse(fs), e)) \o <<Pub("update", e)>>
    /\ UNCHANGED <<packed, construction, destruction, update, eto, members>>

\* faulty variant: the functions are invoked for an empty type too
PatchAlwaysApplies(e, fs) ==
    /\ Idle
    /\ Contains(e)
    /\ instances' = IF eto THEN instances
                    ELSE [instances EXCEPT ![Index(e)] = ApplyFuncs(fs, @)]
    /\ stack' = Push(stack, Frame("patch", "publish", "update", e,
                                  IF eto THEN 0 ELSE Get(e), <<>>, 0, fs))
    /\ trace' = (trace \o AppliedAll(fs, e)) \o <<Pub("update", e)>>
    /\ UNCHANGED <<packed, construction, destruction, update, eto, members>>

\* patch up to the start of update.publish(owner, entity)
Patch(e, fs) ==
    /\ Idle
    /\ Contains(e)
    /\ IF eto
         THEN /\ UNCHANGED instances
              /\ stack' = Push(stack, Frame("patch", "publish", "update", e, 0, <<>>, 0, fs))
              /\ trace' = Append(trace, Pub("update", e))
         ELSE /\ instances' = [instances EXCEPT ![Index(e)] = ApplyFuncs(fs, @)]
              /\ stack' = Push(stack, Frame("patch", "publish", "update", e, Get(e), <<>>, 0, fs))
              /\ trace' = (trace \o AppliedAll(fs, e)) \o <<Pub("update", e)>>
    /\ UNCHANGED <<packed, construction, destruction, update, eto, members>>

\* patch after the publish: return this->get(entity) unless the type is empty
PatchReturn ==
    /\ ~Idle
    /\ Top.op = "patch" /\ Top.pc = "publish" /\ Top.li > Len(update)
    /\ IF eto
         THEN /\ stack' = SetTop(stack, [Top EXCEPT !.pc = "done"])
              /\ trace' = trace
         ELSE /\ \E r \in GetOutcomes(Top.e) : stack' = SetTop(stack, Returned(Top, r))
              /\ trace' = Append(trace, Got(Top.e))
    /\ UNCHANGED <<packed, instances, construction, destruction, update, eto, members>>

\* ---------------------------------------------------------- listeners
\* the listener the publish in progress is about to invoke
Publishing == ~Idle /\ Top.pc = "publish" /\ Top.li <= Len(Sig(Top.sig))

Listener == Sig(Top.sig)[Top.li]

\* the caller's frame once the listener has returned
Advanced == SetTop(stack, [Top EXCEPT !.li = @ + 1])

\* sigh::publish invokes the next listener, which probes and returns
ObserverCall ==
    /\ Publishing
    /\ Listener \in Observers
    /\ stack' = Advanced
    /\ trace' = Append(trace, Call(Top.sig, Listener, Top.e))
    /\ UNCHANGED <<packed, instances, construction, destruction, update, eto, members>>

\* a pool operation returns to its caller
Return ==
    /\ ~Idle
    /\ Top.pc = "done"
    /\ stack' = SubSeq(stack, 1, Len(stack) - 1)
    /\ trace' = IF Len(stack) = 1 THEN <<>> ELSE trace
    /\ UNCHANGED <<packed, instances, construction, destruction, update, eto, members>>

Signals == {"construction", "destruction", "update"}

\* the ranges [first, last) a caller may hand to a batch operation: the
\* sequences of distinct entities of S
Ranges(S) == {r \in SeqsUpTo(S, Cardinality(S)) : NoDup(r)}

\* the registry (or user code) calls into the idle pool
Subscribe == Idle /\ Subscribed < MaxSubscribed /\ \E name \in Signals, l \in Observers : Connect(name, l)

Unsubscribe == Idle /\ \E name \in Signals, l \in Observers : Disconnect(name, l)

CallEmplace == Idle /\ \E e \in Entities \ Range(packed), v \in ArgValues : Emplace(e, v)

CallInsert == Idle /\ \E rng \in Ranges(Entities \ Range(packed)), v \in ArgValues : Insert(rng, v)

CallErase == Idle /\ \E e \in Range(packed) : Erase(e)

CallEraseRange == Idle /\ \E rng \in Ranges(Range(packed)) : EraseRange(rng)

CallEraseEach == Idle /\ \E rng \in Ranges(Range(packed)) : EraseEach(rng)

CallPatch == Idle /\ \E e \in Range(packed), fs \in SeqsUpTo(Funcs, MaxFuncs) : Patch(e, fs)

Next ==
    \/ Subscribe
    \/ Unsubscribe
    \/ CallEmplace
    \/ EmplaceReturn
    \/ CallInsert
    \/ InsertNext
    \/ CallErase
    \/ EraseRemove
    \/ CallEraseRange
    \/ EraseRangeNext
    \/ EraseRangeLoop
    \/ CallEraseEach
    \/ CallPatch
    \/ PatchReturn
    \/ ObserverCall
    \/ Return

Spec == Init /\ [][Next]_vars

\* ------------------------------------------------ reentrant listeners
\* Listeners that call back into the pool do so only from operations nested
\* less than MaxDepth deep.
\* X, a construction listener, erases the entity it is called with from the
\* pool that is publishing
EraserCall ==
    /\ Publishing
    /\ Listener = "X"
    /\ IF Top.sig = "construction" /\ Contains(Top.e) /\ Len(stack) < MaxDepth
         THEN EraseCall(Top.e, Advanced, Append(trace, Call(Top.sig, "X", Top.e)))
         ELSE /\ stack' = Advanced
              /\ trace' = Append(trace, Call(Top.sig, "X", Top.e))
              /\ UNCHANGED <<packed, instances, members>>
    /\ UNCHANGED <<construction, destruction, update, eto>>

\* Y, a construction or destruction listener, emplaces an entity that is not
\* in the pool that is publishing, if there is one
EmplacerCall ==
    /\ Publishing
    /\ Listener = "Y"
    /\ IF Entities \ Range(packed) # {} /\ Len(stack) < MaxDepth
         THEN \E f \in Entities \ Range(packed) :
                 EmplaceCall(f, 0, Advanced, Append(trace, Call(Top.sig, "Y", Top.e)))
         ELSE /\ stack' = Advanced
              /\ trace' = Append(trace, Call(Top.sig, "Y", Top.e))
              /\ UNCHANGED <<packed, instances, members>>
    /\ UNCHANGED <<construction, destruction, update, eto>>

\* the listeners a signal is given when listeners call back into the pool
Reentrant(name) ==
    CASE name = "construction" -> {"A", "X", "Y"}
      [] name = "destruction" -> {"A", "Y"}
      [] name = "update" -> {"A"}

SubscribeRe ==
    Idle /\ Subscribed < MaxSubscribed /\ \E name \in Signals : \E l \in Reentrant(name) : Connect(name, l)

UnsubscribeRe == Idle /\ \E name \in Signals : \E l \in Reentrant(name) : Disconnect(name, l)

NextRe ==
    \/ SubscribeRe
    \/ UnsubscribeRe
    \/ CallEmplace
    \/ EmplaceReturn
    \/ CallInsert
    \/ InsertNext
    \/ CallErase
    \/ EraseRemove
    \/ CallEraseRange
    \/ EraseRangeNext
    \/ EraseRangeLoop
    \/ CallEraseEach
    \/ CallPatch
    \/ PatchReturn
    \/ ObserverCall
    \/ EraserCall
    \/ EmplacerCall
    \/ Return

SpecRe == Init /\ [][NextRe]_vars

\* ------------------------------------------------------ many listeners
\* Up to MaxListeners probing listeners; components are built from one value
\* and patched with no function.
SubscribeMany ==
    Idle /\ Subscribed < MaxListeners /\ \E name \in Signals, l \in Observers : Connect(name, l)

CallEmplaceDefault == Idle /\ \E e \in Entities \ Range(packed) : Emplace(e, 0)

CallInsertDefault == Idle /\ \E rng \in Ranges(Entities \ Range(packed)) : Insert(rng, 0)

CallPatchNoFunc == Idle /\ \E e \in Range(packed) : Patch(e, <<>>)

NextOrder ==
    \/ SubscribeMany
    \/ Unsubscribe
    \/ CallEmplaceDefault
    \/ EmplaceReturn
    \/ CallInsertDefault
    \/ InsertNext
    \/ CallErase
    \/ EraseRemove
    \/ CallEraseRange
    \/ EraseRangeNext
    \/ EraseRangeLoop
    \/ CallPatchNoFunc
    \/ PatchReturn
    \/ ObserverCall
    \/ Return

SpecOrder == Init /\ [][NextOrder]_vars

\* ----------------------------------------------------------- failures
\* An exception leaves the operation that raised it: the frame stands at
\* "thrown" and none of its remaining statements runs.  The pool has no
\* try block, so the exception goes on to the caller.
\* the constructor of the component (l = "Type") or listener l threw
Threw(name, l, e) == [kind |-> "throw", sig |-> name, l |-> l, e |-> e]

\* storage::emplace / storage::insert when the construction of the component
\* throws: no slot is registered
StorageFails == UNCHANGED <<packed, instances>>

\* faulty variant: emplace enters the publish although the construction threw
EmplaceThrowsThenPublishes(e) ==
    /\ Idle
    /\ ~Contains(e)
    /\ StorageFails
    /\ stack' = Push(stack, Frame("emplace", "publish", "construction", e, 0, <<>>, 0, <<>>))
    /\ trace' = trace \o <<Threw("-", "Type", e), Pub("construction", e)>>
    /\ UNCHANGED <<construction, destruction, update, eto, members>>

\* emplace when storage::emplace throws: construction.publish is not reached
EmplaceThrows(e) ==
    /\ Idle
    /\ ~Contains(e)
    /\ StorageFails
    /\ stack' = Push(stack, Frame("emplace", "thrown", "construction", e, 0, <<>>, 0, <<>>))
    /\ trace' = Append(trace, Threw("-", "Type", e))
    /\ UNCHANGED <<construction, destruction, update, eto, members>>

\* insert when storage::insert throws: the publish loop is not reached
InsertThrows(rng) ==
    /\ Idle
    /\ NoDup(rng)
    /\ \A i \in 1..Len(rng) : ~Contains(rng[i])
    /\ StorageFails
    /\ stack' = Push(stack, Frame("insert", "thrown", "construction", 0, 0, rng, 0, <<>>))
    /\ trace' = Append(trace, Threw("-", "Type", 0))
    /\ UNCHANGED <<construction, destruction, update, eto, members>>

\* faulty variant: an emplace left by the exception of a listener takes the
\* entity out of the storage again
ThrowerCallRollsBack ==
    /\ Publishing
    /\ Listener = "T"
    /\ \E throws \in BOOLEAN :
          /\ stack' = IF throws THEN SetTop(stack, [Top EXCEPT !.pc = "thrown"]) ELSE Advanced
          /\ trace' = (trace \o <<Call(Top.sig, "T", Top.e)>>)
                      \o (IF throws THEN <<Threw(Top.sig, "T", Top.e)>> ELSE <<>>)
          /\ IF throws /\ Top.op = "emplace"
               THEN StorageErase(Top.e)
               ELSE UNCHANGED <<packed, instances>>
    /\ UNCHANGED <<construction, destruction, update, eto, members>>

\* sigh::publish invokes the next listener, T, which returns or throws; if it
\* throws, the publish and the pool operation around it are left at once
ThrowerCall ==
    /\ Publishing
    /\ Listener = "T"
    /\ \E throws \in BOOLEAN :
          /\ stack' = IF throws THEN SetTop(stack, [Top EXCEPT !.pc = "thrown"]) ELSE Advanced
          /\ trace' = (trace \o <<Call(Top.sig, "T", Top.e)>>)
                      \o (IF throws THEN <<Threw(Top.sig, "T", Top.e)>> ELSE <<>>)
    /\ UNCHANGED <<packed, instances, construction, destruction, update, eto, members>>

\* the entities an erase that is left by an exception has not erased
NotErased(f) ==
    CASE f.op = "erase" -> {f.e}
      [] f.op = "erase_range" ->
            IF Len(f.rng) = f.n THEN Range(f.rng)
            ELSE {f.rng[i] : i \in f.k..Len(f.rng)}
      [] OTHER -> {}

\* the exception leaves the innermost operation: to the operation that called
\* it (the loop of erase(first, last)), which it leaves in turn, or to the
\* caller of the pool
Propagate ==
    /\ ~Idle
    /\ Top.pc = "thrown"
    /\ stack' = IF Len(stack) = 1 THEN <<>>
                ELSE SetTop(SubSeq(stack, 1, Len(stack) - 1),
                            [stack[Len(stack) - 1] EXCEPT !.pc = "thrown"])
    /\ trace' = IF Len(stack) = 1 THEN <<>> ELSE trace
    /\ UNCHANGED <<packed, instances, construction, destruction, update, eto>>
    /\ members' = members \cup NotErased(Top)

\* the listeners a signal is given when listeners may throw
Throwing == {"A", "T"}

SubscribeThrowing ==
    Idle /\ Subscribed < MaxSubscribed /\ \E name \in Signals, l \in Throwing : Connect(name, l)

UnsubscribeThrowing == Idle /\ \E name \in Signals, l \in Throwing : Disconnect(name, l)

CallEmplaceThrows == Idle /\ \E e \in Entities \ Range(packed) : EmplaceThrows(e)

CallInsertThrows == Idle /\ \E rng \in Ranges(Entities \ Range(packed)) : InsertThrows(rng)

NextFail ==
    \/ SubscribeThrowing
    \/ UnsubscribeThrowing
    \/ CallEmplace
    \/ CallEmplaceThrows
    \/ EmplaceReturn
    \/ CallInsert
    \/ CallInsertThrows
    \/ InsertNext
    \/ CallErase
    \/ EraseRemove
    \/ CallEraseRange
    \/ EraseRangeNext
    \/ EraseRangeLoop
    \/ CallPatch
    \/ PatchReturn
    \/ ObserverCall
    \/ ThrowerCall
    \/ Propagate
    \/ Return

SpecFail == Init /\ [][NextFail]_vars

\* --------------------------------------------------------- batch erase
\* A pool of up to MaxBatch entities with destruction listeners only, filled
\* by batch inserts and emptied by single and batch erases.
BatchEntities == 1..MaxBatch

SubscribeDestroy ==
    Idle /\ Len(destruction) < MaxSubscribed /\ \E l \in Observers : Connect("destruction", l)

UnsubscribeDestroy == Idle /\ \E l \in Observers : Disconnect("destruction", l)

CallInsertBatch == Idle /\ \E rng \in Ranges(BatchEntities \ Range(packed)) : Insert(rng, 0)

NextErase ==
    \/ SubscribeDestroy
    \/ UnsubscribeDestroy
    \/ CallInsertBatch
    \/ CallErase
    \/ EraseRemove
    \/ CallEraseRange
    \/ EraseRangeNext
    \/ EraseRangeLoop
    \/ ObserverCall
    \/ Return

SpecErase == Init /\ [][NextErase]_vars

\* ------------------------------------------------------------- sinks
\* what on_construct() / on_update() / on_destroy() return: a sink bound to
\* the signal, through which listeners are connected and disconnected
Sink == [kind |-> "sink", v |-> 0]

\* faulty variant: taking the sink connects a listener
SinkForConnects(name) ==
    /\ Idle
    /\ stack' = Push(stack, [Frame("sink", "done", name, 0, 0, <<>>, 0, <<>>) EXCEPT !.ret = Sink])
    /\ SetSig(name, Append(Sig(name), "B"))
    /\ UNCHANGED <<packed, instances, eto, trace, members>>

\* return sink{construction} / sink{update} / sink{destruction}
SinkFor(name) ==
    /\ Idle
    /\ stack' = Push(stack, [Frame("sink", "done", name, 0, 0, <<>>, 0, <<>>) EXCEPT !.ret = Sink])
    /\ UNCHANGED <<packed, instances, construction, destruction, update, eto, trace, members>>

on_construct == SinkFor("construction")

on_update == SinkFor("update")

on_destroy == SinkFor("destruction")

\* user code connects and disconnects one listener per signal
SubscribeOne ==
    Idle /\ Subscribed < MaxSubscribed /\ \E name \in Signals : Connect(name, "A")

UnsubscribeOne == Idle /\ \E name \in Signals : Disconnect(name, "A")

NextSink ==
    \/ on_construct
    \/ on_update
    \/ on_destroy
    \/ SubscribeOne
    \/ UnsubscribeOne
    \/ CallEmplace
    \/ EmplaceReturn
    \/ CallInsert
    \/ InsertNext
    \/ CallErase
    \/ EraseRemove
    \/ CallEraseRange
    \/ EraseRangeNext
    \/ EraseRangeLoop
    \/ CallPatch
    \/ PatchReturn
    \/ ObserverCall
    \/ Return

SpecSink == Init /\ [][NextSink]_vars

\* ================================================================ claims
\* the publish and listener-call events of the trace
IsSignalEvent(ev) == ev.kind \in {"publish", "call"}

IsCall(ev) == ev.kind = "call"

SignalEvents == SelectSeq(trace, IsSignalEvent)

NumCalls == Len(SelectSeq(trace, IsCall))

\* one publish of signal `name` for e that has invoked its first n listeners
Published(name, e, n) ==
    <<Pub(name, e)>> \o [j \in 1..n |-> Call(name, Sig(name)[j], e)]

\* one complete publish per entity for the first k entities of rng
RECURSIVE PublishedAll(_, _, _)
PublishedAll(name, rng, k) ==
    IF k = 0 THEN <<>>
    ELSE PublishedAll(name, rng, k - 1) \o Published(name, rng[k], Len(Sig(name)))

Outermost(op) == Len(stack) = 1 /\ Top.op = op

\* C1: while emplace(owner, e, args) publishes and when it is done, e is in
\* the pool exactly once with the value built from args; the operation has
\* entered the construction publish exactly once, for e, and the listeners
\* invoked so far are the first ones of the construction list, each once
\* with e; when it is done every listener has been invoked.
C1_EmplaceStoresThenPublishes ==
    Outermost("emplace") =>
        /\ Count(packed, Top.e) = 1
        /\ (~eto => Get(Top.e) = Top.v)
        /\ Top.li <= Len(construction) + 1
        /\ SignalEvents = Published("construction", Top.e, Top.li - 1)
        /\ (Top.pc = "done" => Top.li = Len(construction) + 1)

C1_Witness ==
    /\ Outermost("emplace")
    /\ Top.pc = "done"
    /\ ~eto
    /\ Top.v = 1
    /\ Len(construction) >= 1
    /\ Len(packed) = 2

\* C2: while erase(owner, e) publishes the destruction signal, e is still in
\* the pool exactly once with the component it had on entry; the storage
\* erase is the last event of the call, after the publish and every listener
\* call, and e is absent once the call is done.
C2_ErasePublishesThenRemoves ==
    (~Idle /\ Top.op = "erase") =>
        /\ (Top.pc = "publish" =>
               /\ Count(packed, Top.e) = 1
               /\ (~eto => Get(Top.e) = Top.v))
        /\ (Top.pc = "done" => ~Contains(Top.e) /\ Top.li = Len(destruction) + 1)
        /\ Top.li <= Len(destruction) + 1
        /\ (Len(stack) = 1 =>
               trace = Published("destruction", Top.e, Top.li - 1)
                       \o (IF Top.pc = "done" THEN <<Erased(Top.e)>> ELSE <<>>))

C2_Witness ==
    /\ Outermost("erase")
    /\ Top.pc = "done"
    /\ Len(destruction) >= 1
    /\ Top.n = 2
    /\ ~eto

\* C3: from the first step of insert(owner, first, last, args) on, every
\* entity of the range is in the pool exactly once (with the value built from
\* args); with no construction listener the call publishes nothing; with one
\* or more it publishes once per entity, in range order, each publish
\* complete before the next starts.
C3_InsertStoresAllThenPublishes ==
    (~Idle /\ Top.op = "insert") =>
        /\ \A i \in 1..Len(Top.rng) :
               /\ Count(packed, Top.rng[i]) = 1
               /\ (~eto => Get(Top.rng[i]) = Top.v)
        /\ IF construction = <<>> \/ Top.rng = <<>>
             THEN trace = <<>> /\ Top.pc = "done"
             ELSE /\ Top.k \in 1..Len(Top.rng)
                  /\ Top.li <= Len(construction) + 1
                  /\ trace = PublishedAll("construction", Top.rng, Top.k - 1)
                              \o Published("construction", Top.rng[Top.k], Top.li - 1)
                  /\ (Top.pc = "done" =>
                         Top.k = Len(Top.rng) /\ Top.li = Len(construction) + 1)

C3_Witness ==
    /\ Outermost("insert")
    /\ Top.pc = "done"
    /\ Len(Top.rng) = 2
    /\ Len(construction) >= 1

\* C4: a batch erase of a range listing the whole pool, and a loop of
\* single-entity erases over such a range, both end with the pool empty and
\* with as many destruction-listener calls as entities times listeners.
C4_BatchEraseAllLikeEraseEach ==
    (/\ Len(stack) = 1
     /\ Top.op \in {"erase_range", "erase_each"}
     /\ Top.pc = "done"
     /\ Len(Top.rng) = Top.n) =>
        /\ packed = <<>>
        /\ instances = <<>>
        /\ NumCalls = Top.n * Len(destruction)

C4_Witness ==
    /\ Outermost("erase_range")
    /\ Top.pc = "done"
    /\ Top.n = 2
    /\ Len(Top.rng) = 2
    /\ Len(destruction) >= 1

\* the functions of fs applied one after the other, the last one outermost
RECURSIVE InOrder(_, _)
InOrder(fs, v) ==
    IF fs = <<>> THEN v
    ELSE Apply(fs[Len(fs)], InOrder(SubSeq(fs, 1, Len(fs) - 1), v))

\* C5: for a non-empty type, patch(owner, e, f1..fn) invokes f1..fn in
\* argument order before it enters the update publish, which it enters once,
\* for e; from then on the component of e is fn(..f1(old)..), which is what
\* the call returns after every update listener has been invoked once; the
\* entities of the pool are the same as on entry.
C5_PatchAppliesInOrderThenPublishes ==
    (~eto /\ ~Idle /\ Top.op = "patch") =>
        /\ Count(packed, Top.e) = 1
        /\ Get(Top.e) = InOrder(Top.fs, Top.v)
        /\ Top.li <= Len(update) + 1
        /\ trace = ([i \in 1..Len(Top.fs) |-> Applied(Top.fs[i], Top.e)]
                    \o Published("update", Top.e, Top.li - 1))
                   \o (IF Top.pc = "done" THEN <<Got(Top.e)>> ELSE <<>>)
        /\ (Top.pc = "done" =>
               /\ Top.ret = Ref(InOrder(Top.fs, Top.v))
               /\ Top.li = Len(update) + 1)
        /\ Range(packed) = Top.pre
        /\ Len(packed) = Top.n

C5_Witness ==
    /\ ~eto
    /\ Outermost("patch")
    /\ Top.pc = "done"
    /\ Len(Top.fs) = 2
    /\ InOrder(Top.fs, Top.v) # InOrder(Reverse(Top.fs), Top.v)
    /\ Len(update) >= 1

\* C6: for an empty type, patch(owner, e, funcs...) invokes no function and
\* evaluates no get: its only events are one update publish for e and the
\* calls of the update listeners, each once in order, and it returns nothing.
C6_PatchOfEmptyTypeOnlyPublishes ==
    (eto /\ ~Idle /\ Top.op = "patch") =>
        /\ instances = <<>>
        /\ Top.li <= Len(update) + 1
        /\ trace = Published("update", Top.e, Top.li - 1)
        /\ (Top.pc = "done" => Top.ret = None /\ Top.li = Len(update) + 1)

C6_Witness ==
    /\ eto
    /\ Outermost("patch")
    /\ Top.pc = "done"
    /\ Len(Top.fs) = 2
    /\ Len(update) >= 1

\* C7: whenever no operation is in progress, and when an outermost operation
\* is done, the entities of the storage are exactly the entities emplaced or
\* inserted and not erased since.
C7_IterationIsMembers ==
    (Idle \/ (Len(stack) = 1 /\ Top.pc = "done")) => Range(packed) = members

C7_Witness ==
    /\ Outermost("erase_range")
    /\ Top.pc = "done"
    /\ Top.n = 2
    /\ Len(Top.rng) = 1
    /\ Len(packed) = 1

\* C8: in every state, also while listeners that call back into the pool are
\* running, no entity occupies two slots of the storage (and a non-empty
\* type has one component per slot).
C8_NoEntityTwice ==
    /\ NoDup(packed)
    /\ Len(instances) = (IF eto THEN 0 ELSE Len(packed))

C8_Witness ==
    /\ Len(stack) = 2
    /\ stack[1].op = "emplace"
    /\ stack[2].op = "emplace"
    /\ stack[2].pc = "publish"
    /\ Len(packed) = 2

\* the number of listener calls that directly follow event p of the trace
CallsAfter(p) ==
    LET S == {q \in 0..(Len(trace) - p) : \A j \in 1..q : trace[p + j].kind = "call"}
    IN  CHOOSE q \in S : \A r \in S : r <= q

\* C9: every publish of the trace, whatever its signal and whichever entity
\* of a batch it is for, is followed by the calls of the listeners now
\* registered for that signal, in the order of the list, each once, all of
\* them unless the publish is the one in progress; no listener is called
\* outside a publish.
C9_ListenersInSubscriptionOrder ==
    /\ \A p \in 1..Len(trace) :
          trace[p].kind = "call" => p > 1 /\ trace[p - 1].kind \in {"publish", "call"}
    /\ \A p \in 1..Len(trace) :
          trace[p].kind = "publish" =>
              LET name == trace[p].sig
                  q == CallsAfter(p)
              IN  /\ q <= Len(Sig(name))
                  /\ \A j \in 1..q : trace[p + j] = Call(name, Sig(name)[j], trace[p].e)
                  /\ (q < Len(Sig(name)) =>
                         /\ p + q = Len(trace)
                         /\ ~Idle
                         /\ Top.pc = "publish"
                         /\ Top.sig = name
                         /\ Top.e = trace[p].e
                         /\ Top.li = q + 1)

C9_Witness ==
    /\ Outermost("insert")
    /\ Top.pc = "done"
    /\ Len(Top.rng) = 2
    /\ construction = <<"A", "C">>
    /\ destruction = <<"B">>
    /\ NumCalls = 4

\* the entities left of S by the emplaces and erases the trace records: an
\* emplace enters a construction publish, an erase a destruction publish
RECURSIVE NetEffect(_, _)
NetEffect(tr, S) ==
    IF tr = <<>> THEN S
    ELSE LET ev == Head(tr)
         IN  NetEffect(Tail(tr),
                 CASE ev.kind = "publish" /\ ev.sig = "construction" -> S \cup {ev.e}
                   [] ev.kind = "publish" /\ ev.sig = "destruction" -> S \ {ev.e}
                   [] OTHER -> S)

\* C10: whatever a construction listener does to the pool during
\* emplace(owner, e, args), erasing e or emplacing another entity, no emplace
\* evaluates get() for an entity that is not in the pool (it neither aborts
\* nor returns a dangling reference), and when the outermost emplace is done
\* the entities of the storage are those on entry changed by the emplaces and
\* erases made, each in one slot.
C10_ReentrantEmplaceTolerated ==
    \A i \in 1..Len(stack) :
        stack[i].op = "emplace" =>
            /\ stack[i].pc # "aborted"
            /\ stack[i].ret # Dangling
            /\ ((i = 1 /\ Len(stack) = 1 /\ stack[i].pc = "done") =>
                   /\ Range(packed) = NetEffect(trace, stack[1].pre)
                   /\ NoDup(packed))

\* the part of C10 about the storage alone, which the code satisfies
C10_NetEffect ==
    (Outermost("emplace") /\ Top.pc \in {"done", "aborted"}) =>
        /\ Range(packed) = NetEffect(trace, Top.pre)
        /\ NoDup(packed)

\* the trace records that the construction of a component threw
CtorThrew(tr) == \E i \in 1..Len(tr) : tr[i].kind = "throw" /\ tr[i].l = "Type"

\* C11: the step in which the construction of the component throws inside
\* emplace or insert leaves the storage and the listener lists as they were
\* (no entity of the call is registered, no component is added or changed),
\* publishes nothing and leaves the operation at once; the next step hands
\* the exception to the caller of the pool, again without touching the
\* storage or publishing.
C11_ConstructionFailureLeavesNoTrace ==
    [][/\ (CtorThrew(trace') /\ ~CtorThrew(trace)) =>
              /\ packed' = packed
              /\ instances' = instances
              /\ <<construction', destruction', update'>> = <<construction, destruction, update>>
              /\ Len(stack') = 1
              /\ Top'.op \in {"emplace", "insert"}
              /\ Top'.pc = "thrown"
              /\ trace' = <<Threw("-", "Type", Top'.e)>>
              /\ (Top'.op = "emplace" => Top'.e \notin Range(packed'))
              /\ (Top'.op = "insert" => Range(Top'.rng) \cap Range(packed') = {})
       /\ CtorThrew(trace) =>
              /\ stack' = <<>>
              /\ packed' = packed
              /\ instances' = instances
              /\ trace' = <<>>
      ]_vars

C11_Witness ==
    /\ Outermost("insert")
    /\ Top.pc = "thrown"
    /\ CtorThrew(trace)
    /\ Len(Top.rng) = 1
    /\ ~eto
    /\ instances = <<1>>
    /\ construction # <<>>

\* the innermost operation in progress has been left by the exception of a
\* listener
ListenerThrew ==
    /\ ~Idle
    /\ Top.pc = "thrown"
    /\ Len(trace) >= 2
    /\ trace[Len(trace)].kind = "throw"
    /\ trace[Len(trace)].l = "T"

\* C12: when a listener throws, the exception is the last thing the
\* operation does (nothing runs after the failing call) and nothing is taken
\* back: in emplace and insert every entity of the call is present with its
\* component, and the publishes made for the earlier entities of the range
\* stand; in patch the component is the patched one; in erase the entity is
\* still present with its component; in a batch erase the entities erased
\* before the failure stay erased and all others stay present.
C12_ListenerFailureRollsNothingBack ==
    ListenerThrew =>
        LET f == Top
            name == f.sig
        IN  /\ ((f.op = "erase_range" /\ Len(f.rng) # f.n) \/
                    (f.li <= Len(Sig(name)) /\ Sig(name)[f.li] = "T"))
            /\ SubSeq(trace, Len(trace) - 1, Len(trace))
                   = <<Call(name, "T", trace[Len(trace)].e), Threw(name, "T", trace[Len(trace)].e)>>
            /\ (f.op = "emplace" =>
                   /\ Count(packed, f.e) = 1
                   /\ (~eto => Get(f.e) = f.v)
                   /\ trace = Published("construction", f.e, f.li) \o <<Threw(name, "T", f.e)>>)
            /\ (f.op = "insert" =>
                   /\ \A i \in 1..Len(f.rng) :
                          Count(packed, f.rng[i]) = 1 /\ (~eto => Get(f.rng[i]) = f.v)
                   /\ trace = (PublishedAll("construction", f.rng, f.k - 1)
                               \o Published("construction", f.rng[f.k], f.li))
                              \o <<Threw(name, "T", f.e)>>)
            /\ (f.op = "patch" =>
                   /\ Count(packed, f.e) = 1
                   /\ (~eto => Get(f.e) = InOrder(f.fs, f.v))
                   /\ Range(packed) = f.pre)
            /\ (f.op = "erase" =>
                   /\ Count(packed, f.e) = 1
                   /\ (~eto => Get(f.e) = f.v)
                   /\ Range(packed) = f.pre)
            /\ ((f.op = "erase_range" /\ Len(f.rng) = f.n) =>
                   /\ Range(packed) = f.pre
                   /\ Len(packed) = f.n)
            /\ ((f.op = "erase_range" /\ Len(f.rng) # f.n) =>
                   Range(packed) = f.pre \ {f.rng[i] : i \in 1..(f.k - 2)})

C12_Witness ==
    /\ ListenerThrew
    /\ Outermost("insert")
    /\ Top.k = 2
    /\ Top.li = 2
    /\ ~eto
    /\ Top.v = 1

\* storage::begin() .. storage::end(): the entities of the pool in the order
\* of the dense array, walked from its last slot or from its first
Iterations == {Reverse(packed), packed}

\* the frame of a batch erase that took the full-clear branch
FastPath(f) == f.op = "erase_range" /\ Len(f.rng) = f.n

\* C13 as stated: on the full-clear branch the destruction signals are
\* published in the pool's iteration order, the k-th signal for the k-th
\* entity of the iteration, however the range lists the entities.
C13_SignalsInIterationOrder ==
    (~Idle /\ FastPath(Top) /\ Top.pc = "publish") =>
        \E it \in Iterations : \A j \in 1..Top.k : Top.rng[j] = it[j]

\* C13 amended: on the full-clear branch with a destruction listener, the
\* range lists every entity of the pool once, the destruction signals are
\* published once per entity in the order of the range [first, last), each
\* publish complete before the next, and the storage is cleared once, after
\* the last publish.
C13_SignalsInRangeOrder ==
    (~Idle /\ FastPath(Top) /\ destruction # <<>> /\ Top.rng # <<>>) =>
        /\ Top.k \in 1..Len(Top.rng)
        /\ Range(Top.rng) = Top.pre
        /\ Top.li <= Len(destruction) + 1
        /\ trace = (PublishedAll("destruction", Top.rng, Top.k - 1)
                    \o Published("destruction", Top.rng[Top.k], Top.li - 1))
                   \o (IF Top.pc = "done" THEN <<Cleared>> ELSE <<>>)
        /\ (Top.pc = "publish" => Len(packed) = Top.n /\ Range(packed) = Top.pre)
        /\ (Top.pc = "done" =>
               /\ Top.k = Len(Top.rng)
               /\ Top.li = Len(destruction) + 1
               /\ packed = <<>>)

C13_Witness ==
    /\ ~Idle
    /\ FastPath(Top)
    /\ Top.pc = "publish"
    /\ Len(Top.rng) = 3
    /\ Top.k = 3
    /\ Top.li = Len(destruction) + 1
    /\ Len(destruction) = 2
    /\ Top.rng \notin Iterations

\* the events of one kind in the trace
OfKind(k) == SelectSeq(trace, LAMBDA ev : ev.kind = k)

\* C14: a batch erase whose range is as long as the pool is big clears the
\* storage in bulk, once, and erases no entity singly; any other batch erase
\* never clears and runs one single-entity erase (one destruction publish,
\* then one storage erase) per entity of the range, in range order, so that
\* an empty range on a non-empty pool does nothing at all.
C14_PathChosenBySizes ==
    (~Idle /\ stack[1].op = "erase_range") =>
        LET f == stack[1]
            done == Len(stack) = 1 /\ f.pc = "done"
        IN  IF Len(f.rng) = f.n
              THEN /\ OfKind("erase") = <<>>
                   /\ Len(OfKind("clear")) = (IF done THEN 1 ELSE 0)
                   /\ (done => packed = <<>>)
              ELSE /\ OfKind("clear") = <<>>
                   /\ Len(OfKind("erase")) <= Len(f.rng)
                   /\ OfKind("erase") = [i \in 1..Len(OfKind("erase")) |-> Erased(f.rng[i])]
                   /\ Len(OfKind("publish")) \in {Len(OfKind("erase")), Len(OfKind("erase")) + 1}
                   /\ OfKind("publish")
                          = [i \in 1..Len(OfKind("publish")) |-> Pub("destruction", f.rng[i])]
                   /\ (done =>
                          /\ Len(OfKind("erase")) = Len(f.rng)
                          /\ Len(OfKind("publish")) = Len(f.rng)
                          /\ Range(packed) = f.pre \ Range(f.rng)
                          /\ Len(packed) = f.n - Len(f.rng))
                   /\ (f.rng = <<>> => trace = <<>> /\ Len(packed) = f.n)

C14_Witness ==
    /\ Outermost("erase_range")
    /\ Top.pc = "done"
    /\ Top.n = 3
    /\ Len(Top.rng) = 2
    /\ Len(destruction) >= 1
    /\ Len(OfKind("erase")) = 2

\* the frame of a batch erase that took the entity-by-entity branch
SlowPath(f) == f.op = "erase_range" /\ Len(f.rng) # f.n

\* C15: in a batch erase that goes entity by entity, while the destruction
\* signal of the k-th entity of the range is being published the entities
\* before it in the range are absent and the k-th and all later ones are
\* present, each once; the entities of the pool that the range does not list
\* are present in every state of the call, and they are what is left when it
\* is done.
C15_SlowPathInRangeOrder ==
    (~Idle /\ SlowPath(stack[1])) =>
        LET f == stack[1]
            k == f.k - 1
        IN  /\ \A e \in f.pre \ Range(f.rng) : Count(packed, e) = 1
            /\ ((Len(stack) = 2 /\ stack[2].pc = "publish") =>
                   /\ stack[2].op = "erase"
                   /\ k \in 1..Len(f.rng)
                   /\ stack[2].e = f.rng[k]
                   /\ \A i \in 1..(k - 1) : ~Contains(f.rng[i])
                   /\ \A i \in k..Len(f.rng) : Count(packed, f.rng[i]) = 1)
            /\ ((Len(stack) = 1 /\ f.pc = "done") =>
                   /\ Range(packed) = f.pre \ Range(f.rng)
                   /\ Len(packed) = f.n - Len(f.rng))

C15_Witness ==
    /\ Len(stack) = 2
    /\ SlowPath(stack[1])
    /\ stack[1].n = 3
    /\ Len(stack[1].rng) = 2
    /\ stack[1].k = 3
    /\ stack[2].pc = "publish"
    /\ Len(destruction) = 2
    /\ stack[2].li = 2

\* the three listener lists
Lists == <<construction, destruction, update>>

\* C16: a step that takes a sink (on_construct, on_update, on_destroy)
\* changes neither the listener lists nor the storage; a step that changes a
\* listener list (connect, disconnect) changes neither the entities nor the
\* components; and no step of emplace, insert, erase or patch, from the call
\* to the return, changes a listener list.
C16_ListenersAndEntriesIndependent ==
    [][/\ (~Idle' /\ Top'.op = "sink" /\ Idle) =>
              /\ Lists' = Lists
              /\ <<packed', instances'>> = <<packed, instances>>
       /\ (Lists' # Lists) => <<packed', instances'>> = <<packed, instances>>
       /\ ((~Idle' /\ Top'.op # "sink") \/ (~Idle /\ Top.op # "sink")) => Lists' = Lists
      ]_vars

C16_Witness ==
    /\ ~Idle
    /\ Top.op = "sink"
    /\ Top.sig = "update"
    /\ Top.ret = Sink
    /\ ~eto
    /\ instances = <<1, 0>>
    /\ update = <<>>
    /\ Len(construction) = 1

\* a destruction signal has been published for e since e was last put into
\* the pool by the operation in progress
Signalled(e) ==
    \E i \in 1..Len(trace) :
        /\ trace[i] = Pub("destruction", e)
        /\ \A j \in (i + 1)..Len(trace) : trace[j] # Pub("construction", e)

\* C17: with a destruction listener registered, every entity that a step of
\* an erase takes out of the storage has had its destruction signal
\* published before that step, whatever the listeners did to the pool in
\* between.
C17_NoRemovalWithoutSignal ==
    [][destruction # <<>> =>
           \A e \in Range(packed) \ Range(packed') : Signalled(e)]_vars

\* C18: as long as a batch erase on the full-clear branch is publishing, in
\* every state a destruction listener of the batch can observe (also from
\* inside an operation it started itself), every entity that was in the pool
\* when the batch erase was called is still in it, once, and the storage has
\* not been cleared.
C18_FastPathRemovesNothingEarly ==
    (~Idle /\ FastPath(stack[1]) /\ stack[1].pc = "publish") =>
        /\ \A e \in stack[1].pre : Count(packed, e) = 1
        /\ Len(packed) >= stack[1].n
        /\ OfKind("clear") = <<>>

C18_Witness ==
    /\ Len(stack) = 1
    /\ FastPath(Top)
    /\ Top.pc = "publish"
    /\ Top.k = 2
    /\ Top.li = 2
    /\ Contains(Top.rng[1])
    /\ Contains(Top.rng[2])

\* the signal an operation publishes
OwnSignal(op) ==
    CASE op \in {"emplace", "insert"} -> "construction"
      [] op \in {"erase", "erase_range"} -> "destruction"
      [] op = "patch" -> "update"
      [] OTHER -> "-"

\* the entities an operation is called with
Args(f) ==
    CASE f.op \in {"emplace", "erase", "patch"} -> {f.e}
      [] f.op \in {"insert", "erase_range"} -> Range(f.rng)
      [] OTHER -> {}

\* the component of e in the dense arrays p, ins
ValueIn(p, ins, e) == ins[CHOOSE i \in 1..Len(p) : p[i] = e]

\* C19: in every step of an operation, from its call to its return, every
\* publish and listener call recorded is for the operation's own signal
\* (construction for emplace and insert, destruction for erase, update for
\* patch) and for an entity it was called with; an entity it was not called
\* with is present after the step iff it was before, with the same
\* component; and a step of patch leaves the set of entities as it was.
C19_OwnSignalOwnEntities ==
    [][(~Idle \/ ~Idle') =>
          LET f == IF ~Idle' THEN stack'[1] ELSE stack[1]
              others == (Range(packed) \cup Range(packed')) \ Args(f)
          IN  /\ \A i \in 1..Len(trace') :
                    trace'[i].kind \in {"publish", "call"} =>
                        trace'[i].sig = OwnSignal(f.op) /\ trace'[i].e \in Args(f)
              /\ \A e \in others :
                    /\ Count(packed, e) = 1
                    /\ Count(packed', e) = 1
                    /\ (~eto => ValueIn(packed', instances', e) = ValueIn(packed, instances, e))
              /\ (f.op = "patch" => packed' = packed)
      ]_vars

C19_Witness ==
    /\ Outermost("patch")
    /\ Top.pc = "done"
    /\ ~eto
    /\ Len(packed) = 2
    /\ Get(Top.e) # Top.v
    /\ \E e \in Range(packed) \ {Top.e} : Get(e) = 1
    /\ update = <<"A">>
    /\ construction = <<"A">>
====
